---- MODULE Spec2Model ----
(***************************************************************************)
(* Model of app.py: the Census dashboard.  The fetcher                     *)
(* (make_census_request), the cached loader and normalizer                 *)
(* (load_census_data under st.cache_data(ttl=3600)), the session state     *)
(* (selected_state, view_mode) and the script that Streamlit re-runs on    *)
(* every user interaction.                                                 *)
(*                                                                         *)
(* Numbers: integer columns hold the integer itself; the derived           *)
(* percentage columns hold hundredths (12.35 is Num(1235)), computed on    *)
(* exact rationals with round-half-to-even, as numpy's round does on the   *)
(* decimal value.                                                          *)
(***************************************************************************)
EXTENDS Integers, Sequences, FiniteSets, TLC

VARIABLES
    retry_attempts,   \* API_CONFIG['retry_attempts']
    selected_state,   \* st.session_state.selected_state
    view_mode,        \* st.session_state.view_mode
    cache,            \* the st.cache_data entry of load_census_data
    pc,               \* position of the script run
    pending,          \* the widget interaction that triggered the run
    attempt,          \* loop variable of make_census_request
    data,             \* what make_census_request returned
    df,               \* what load_census_data returned to the script
    log,              \* GETs and st.* messages of the current table access
    rendered,         \* presenter functions called by the current run
    crashed,          \* uncaught exception of the current run
    hist              \* how the current table access relates to the previous one

vars == <<retry_attempts, selected_state, view_mode, cache, pc, pending,
          attempt, data, df, log, rendered, crashed, hist>>

(***************************************************************************)
(* Bounds                                                                  *)
(***************************************************************************)
MaxRetry == 3

(***************************************************************************)
(* Cells.  A raw JSON cell is a string (a sequence of characters) or null; *)
(* a DataFrame cell is a string, None, a number, NaN or +infinity.         *)
(***************************************************************************)
Str(s) == [k |-> "str", v |-> 0, s |-> s]
Null == [k |-> "null", v |-> 0, s |-> <<>>]
Num(n) == [k |-> "num", v |-> n, s |-> <<>>]
NaN == [k |-> "nan", v |-> 0, s |-> <<>>]
Inf == [k |-> "inf", v |-> 0, s |-> <<>>]

Digits == <<"0", "1", "2", "3", "4", "5", "6", "7", "8", "9">>

IsDigit(c) == \E i \in 1..10 : Digits[i] = c

DigitVal(c) == (CHOOSE i \in 1..10 : Digits[i] = c) - 1

RECURSIVE ParseDigits(_)
ParseDigits(s) ==
    IF s = <<>> THEN 0
    ELSE 10 * ParseDigits(SubSeq(s, 1, Len(s) - 1)) + DigitVal(s[Len(s)])

\* pd.to_numeric(..., errors="coerce") on one cell.
to_numeric(c) ==
    IF c.k = "str" /\ c.s # <<>> /\ \A i \in 1..Len(c.s) : IsDigit(c.s[i])
    THEN Num(ParseDigits(c.s))
    ELSE IF c.k = "num" THEN c ELSE NaN

\* pandas isna()
isna(c) == c.k \in {"nan", "null"}

(***************************************************************************)
(* CENSUS_VARIABLES                                                        *)
(***************************************************************************)
CensusCodes ==
    <<"NAME", "B01003_001E", "B19013_001E", "B02001_002E", "B02001_003E",
      "B02001_005E", "B02001_006E", "B25003_001E", "B25003_002E",
      "B15003_022E", "B08303_001E">>

CensusLabels ==
    <<"Estado", "Población Total", "Ingreso Medio ($)", "Blancos",
      "Afroamericanos", "Asiáticos", "Haw/Pacific", "Total Viviendas",
      "Viviendas Propias", "Educación Universitaria",
      "Tiempo Promedio al Trabajo (min)">>

\* df.rename(columns=CENSUS_VARIABLES) on one column name.
CENSUS_VARIABLES(col) ==
    IF \E i \in 1..Len(CensusCodes) : CensusCodes[i] = col
    THEN CensusLabels[CHOOSE i \in 1..Len(CensusCodes) : CensusCodes[i] = col]
    ELSE col

(***************************************************************************)
(* DataFrames: column names and rows of cells, positionally aligned.       *)
(***************************************************************************)
EmptyDataFrame == [columns |-> <<>>, rows |-> <<>>]

Empty(d) == d.columns = <<>> \/ d.rows = <<>>

HasCol(d, name) == \E i \in 1..Len(d.columns) : d.columns[i] = name

ColIdx(d, name) == CHOOSE i \in 1..Len(d.columns) : d.columns[i] = name

Cell(d, r, name) == d.rows[r][ColIdx(d, name)]

RECURSIVE SelectIdx(_, _, _)
SelectIdx(s, keep, i) ==
    IF i > Len(s) THEN <<>>
    ELSE (IF i \in keep THEN <<s[i]>> ELSE <<>>) \o SelectIdx(s, keep, i + 1)

\* Lexicographic order on strings by character code.
CharOrd(c) ==
    CHOOSE n \in 0..40 :
        <<"0", "1", "2", "3", "4", "5", "6", "7", "8", "9", "A", "B", "C", "D",
          "E", "F", "G", "H", "I", "J", "K", "L", "M", "N", "O", "P", "Q", "R",
          "S", "T", "U", "V", "W", "X", "Y", "Z", "/", ".", "-", " ", "?">>[n + 1] = c

RECURSIVE StrLess(_, _)
StrLess(a, b) ==
    IF b = <<>> THEN FALSE
    ELSE IF a = <<>> THEN TRUE
    ELSE IF a[1] = b[1] THEN StrLess(Tail(a), Tail(b))
    ELSE CharOrd(a[1]) < CharOrd(b[1])

\* Order of sort_values on an object column: missing values last.
KeyLess(a, b) ==
    IF isna(a) THEN FALSE ELSE IF isna(b) THEN TRUE ELSE StrLess(a.s, b.s)

RECURSIVE InsertSorted(_, _, _)
InsertSorted(sorted, row, key) ==
    IF sorted = <<>> THEN <<row>>
    ELSE IF KeyLess(row[key], sorted[1][key])
         THEN <<row>> \o sorted
         ELSE <<sorted[1]>> \o InsertSorted(Tail(sorted), row, key)

RECURSIVE SortRows(_, _)
SortRows(rows, key) ==
    IF rows = <<>> THEN <<>>
    ELSE InsertSorted(SortRows(SubSeq(rows, 1, Len(rows) - 1), key),
                      rows[Len(rows)], key)

(***************************************************************************)
(* Payloads: what response.json() can return.  A list is the header row    *)
(* followed by the data rows; a dict has n keys; a scalar is a number or   *)
(* a boolean.  NoPayload is Python's None.                                 *)
(***************************************************************************)
ListPayload(l) == [kind |-> "list", n |-> Len(l), truthy |-> l # <<>>, list |-> l]
DictPayload(n) == [kind |-> "dict", n |-> n, truthy |-> n > 0, list |-> <<>>]
ScalarPayload(t) == [kind |-> "scalar", n |-> 0, truthy |-> t, list |-> <<>>]
NoPayload == [kind |-> "none", n |-> 0, truthy |-> FALSE, list |-> <<>>]

(***************************************************************************)
(* load_census_data, lines 127-151: the normalization inside the try.      *)
(***************************************************************************)
RECURSIVE MaxLen(_)
MaxLen(rows) ==
    IF rows = <<>> THEN 0
    ELSE LET m == MaxLen(Tail(rows))
         IN IF Len(rows[1]) > m THEN Len(rows[1]) ELSE m

\* pd.DataFrame(rows, columns=headers): short rows are padded with None;
\* a width other than len(headers) raises ValueError.
DataFrameRaises(rows, headers) == MaxLen(rows) # Len(headers)

DataFrame(rows, headers) ==
    [columns |-> headers,
     rows |-> [r \in 1..Len(rows) |->
                 [c \in 1..Len(headers) |->
                    IF c <= Len(rows[r]) THEN rows[r][c] ELSE Null]]]

\* numeric_cols = [col for col in headers[1:-1] if col != 'NAME']
numeric_cols(headers) ==
    {c \in 2..(Len(headers) - 1) : headers[c] # "NAME"}

ConvertNumeric(d, cols) ==
    [d EXCEPT !.rows =
        [r \in 1..Len(d.rows) |->
           [c \in 1..Len(d.columns) |->
              IF c \in cols THEN to_numeric(d.rows[r][c]) ELSE d.rows[r][c]]]]

Rename(d) ==
    [d EXCEPT !.columns = [c \in 1..Len(d.columns) |-> CENSUS_VARIABLES(d.columns[c])]]

\* df.dropna(subset=...): how='any' is the default.
DropRow(row, subset) == \E c \in subset : isna(row[c])

dropna(d) ==
    LET subset == {c \in 1..Len(d.columns) : d.columns[c] # "Estado"}
        keep == {r \in 1..Len(d.rows) : ~DropRow(d.rows[r], subset)}
    IN [d EXCEPT !.rows = SelectIdx(d.rows, keep, 1)]

RoundHalfEven(a, b) ==
    LET q == a \div b
        r == a % b
    IN IF 2 * r < b THEN q
       ELSE IF 2 * r > b THEN q + 1
       ELSE IF q % 2 = 0 THEN q ELSE q + 1

\* (num / den * 100).round(2) on one row, in hundredths.
Percent(num, den) ==
    IF isna(num) \/ isna(den) THEN NaN
    ELSE IF den.v = 0 THEN (IF num.v = 0 THEN NaN ELSE Inf)
    ELSE Num(RoundHalfEven(num.v * 10000, den.v))

PercentSources ==
    <<(<<"% Blancos", "Blancos", "Población Total">>),
      (<<"% Afroamericanos", "Afroamericanos", "Población Total">>),
      (<<"% Asiáticos", "Asiáticos", "Población Total">>),
      (<<"% Haw/Pacific", "Haw/Pacific", "Población Total">>),
      (<<"% Viviendas Propias", "Viviendas Propias", "Total Viviendas">>)>>

\* A KeyError (column absent) or a TypeError (a column that was not coerced
\* still holds strings) in lines 145-151.
PercentRaises(d) ==
    \/ \E i \in 1..Len(PercentSources) :
          ~HasCol(d, PercentSources[i][2]) \/ ~HasCol(d, PercentSources[i][3])
    \/ ~HasCol(d, "Estado")
    \/ \E i \in 1..Len(PercentSources), r \in 1..Len(d.rows) :
          \/ Cell(d, r, PercentSources[i][2]).k = "str"
          \/ Cell(d, r, PercentSources[i][3]).k = "str"

AddPercents(d) ==
    [columns |-> d.columns \o [i \in 1..Len(PercentSources) |-> PercentSources[i][1]],
     rows |-> [r \in 1..Len(d.rows) |->
                 d.rows[r] \o
                 [i \in 1..Len(PercentSources) |->
                    Percent(Cell(d, r, PercentSources[i][2]),
                            Cell(d, r, PercentSources[i][3]))]]]

sort_values(d) == [d EXCEPT !.rows = SortRows(d.rows, ColIdx(d, "Estado"))]

Cleaned(l) ==
    dropna(Rename(ConvertNumeric(DataFrame(Tail(l), l[1]), numeric_cols(l[1]))))

ProcessRaises(p) ==
    \/ p.kind # "list"
    \/ DataFrameRaises(Tail(p.list), p.list[1])
    \/ PercentRaises(Cleaned(p.list))

\* load_census_data lines 123-155 on the value make_census_request returned:
\* the messages emitted and the table returned.  A truthy scalar reaches
\* len(data) on line 123, outside the try, and raises TypeError.
LoadRaises(p) == p.kind = "scalar" /\ p.truthy

LoadFails(p) == ~p.truthy \/ p.n < 2 \/ ProcessRaises(p)

LoadMessages(p) ==
    IF ~p.truthy \/ p.n < 2 THEN <<"error: no se pudieron cargar">>
    ELSE IF ProcessRaises(p) THEN <<"error: procesando datos">>
    ELSE <<>>

LoadTable(p) ==
    IF LoadFails(p) THEN EmptyDataFrame
    ELSE sort_values(AddPercents(Cleaned(p.list)))

(***************************************************************************)
(* The cache entry of load_census_data (st.cache_data(ttl=3600)): the      *)
(* returned table and the st.* messages recorded for replay.  The entry    *)
(* expires when its ttl has elapsed.                                       *)
(***************************************************************************)
NoEntry == [present |-> FALSE, expired |-> FALSE, value |-> EmptyDataFrame, msgs |-> <<>>]

CacheValid(e) == e.present /\ ~e.expired

\* st.cache_data stores whatever the function returns.
CacheStore(value, msgs) ==
    [present |-> TRUE, expired |-> FALSE, value |-> value, msgs |-> msgs]

\* A clear that leaves the entry of load_census_data in place.
CacheClearKeeps(e) == e

\* st.cache_data.clear()
CacheClear(e) == NoEntry

\* What st.cache_data records for replay: the st.error and st.warning
\* elements, not the HTTP traffic and not the transient spinner.
IsMessage(m) == m \notin {"GET", "spinner: cargando datos"}

RECURSIVE Messages(_)
Messages(l) ==
    IF l = <<>> THEN <<>>
    ELSE (IF IsMessage(l[1]) THEN <<l[1]>> ELSE <<>>) \o Messages(Tail(l))

RECURSIVE Count(_, _)
Count(l, x) ==
    IF l = <<>> THEN 0
    ELSE (IF l[1] = x THEN 1 ELSE 0) + Count(Tail(l), x)

LoadErrors == {"error: no se pudieron cargar", "error: procesando datos"}

\* The outcome of the table access whose messages are l.
Outcome(l) ==
    IF l # <<>> /\ l[Len(l)] \in LoadErrors THEN "failed" ELSE "ok"

(***************************************************************************)
(* Inputs: the bodies the Census API answers with.                         *)
(***************************************************************************)
StdHeader == CensusCodes \o <<"state">>

One == Str(<<"1">>)

Fips == Str(<<"0", "1">>)

\* A data row: name, population, income, whites, housing units, owned units.
Row(name, pop, inc, bl, tv, vp) ==
    <<Str(name), pop, inc, bl, One, One, One, tv, vp, One, One, Fips>>

AL == <<"A", "L">>
CA == <<"C", "A">>
TX == <<"T", "X">>

Tokens ==
    {Str(<<"0">>), Str(<<"3">>), Str(<<"7">>), Str(<<"1", "0">>),
     Str(<<"N", "/", "A">>), Null}

GoodRow(name) == Row(name, Str(<<"1", "0">>), Str(<<"7">>), Str(<<"3">>), Str(<<"7">>), Str(<<"3">>))

Payloads ==
    {ListPayload(<<StdHeader, GoodRow(TX), GoodRow(CA)>>),
     ListPayload(<<StdHeader, GoodRow(AL)>>),
     ListPayload(<<StdHeader, GoodRow(CA),
                   Row(AL, Str(<<"1", "0">>), Str(<<"N", "/", "A">>), One, One, One)>>),
     ListPayload(<<StdHeader, Row(TX, Str(<<"0">>), One, Str(<<"3">>), Str(<<"0">>), Str(<<"0">>))>>),
     ListPayload(<<StdHeader>>),
     ListPayload(<<(<<"NAME", "B01003_001E", "state">>),
                   (<<Str(CA), One, Fips>>)>>),
     DictPayload(2),
     ScalarPayload(TRUE),
     ScalarPayload(FALSE)}

RetryValues == (-1)..MaxRetry

(***************************************************************************)
(* Session state and widgets                                               *)
(***************************************************************************)
NoClick == [btn |-> "none", arg |-> Null]

Click(b, a) == [btn |-> b, arg |-> a]

\* df['Estado'].unique()
States(d) ==
    IF HasCol(d, "Estado") THEN {Cell(d, r, "Estado") : r \in 1..Len(d.rows)} ELSE {}

\* Python truthiness of selected_state
Truthy(c) == c.k = "str" /\ c.s # <<>>

NoHist ==
    [last |-> "none", sinceCleared |-> FALSE, sinceExpired |-> FALSE,
     prev |-> "none", cleared |-> FALSE, expired |-> FALSE, hit |-> FALSE,
     done |-> FALSE]

Init ==
    /\ retry_attempts \in RetryValues
    /\ selected_state = Null
    /\ view_mode = "overview"
    /\ cache = NoEntry
    /\ pc = "sidebar"
    /\ pending = NoClick
    /\ attempt = 0
    /\ data = NoPayload
    /\ df = EmptyDataFrame
    /\ log = <<>>
    /\ rendered = {}
    /\ crashed = "none"
    /\ hist = NoHist

(***************************************************************************)
(* User interactions.  Each one makes Streamlit re-run the script from the *)
(* top; a button returns True in that run at the place where it is called. *)
(***************************************************************************)
StartRun(click) ==
    /\ pc = "idle"
    /\ pending' = click
    /\ pc' = "sidebar"
    /\ rendered' = {}
    /\ crashed' = "none"
    /\ hist' = [hist EXCEPT !.done = FALSE]
    /\ UNCHANGED <<retry_attempts, selected_state, view_mode, cache, attempt,
                   data, df, log>>

\* Any interaction without a handler (moving a selectbox, reloading the page).
Rerun ==
    /\ pc = "idle"
    /\ StartRun(NoClick)

\* line 421: the sidebar button is drawn by every run.
ClickActualizar ==
    /\ pc = "idle"
    /\ StartRun(Click("actualizar", Null))

\* line 176: disabled while the selectbox shows 'Todos los Estados'.
ClickVerDetalles ==
    /\ "selector" \in rendered
    /\ \E s \in States(df) : StartRun(Click("ver_detalles", s))

\* line 182
ClickVistaGeneral ==
    /\ "selector" \in rendered
    /\ StartRun(Click("vista_general", Null))

\* line 198
ClickVolver ==
    /\ "detail" \in rendered
    /\ StartRun(Click("volver", Null))

\* lines 205-212: the selectbox over the other states returns None when
\* there is no other state.
other_states(d, state_name) == States(d) \ {state_name}

ClickCambiarEstado ==
    /\ "detail" \in rendered
    /\ \E s \in (IF other_states(df, selected_state) = {} THEN {Null}
                  ELSE other_states(df, selected_state)) :
          StartRun(Click("cambiar", s))

\* line 109: the ttl of the cache entry elapses between two runs.
TtlExpire ==
    /\ pc = "idle"
    /\ CacheValid(cache)
    /\ cache' = [cache EXCEPT !.expired = TRUE]
    /\ hist' = [hist EXCEPT !.sinceExpired = TRUE]
    /\ UNCHANGED <<retry_attempts, selected_state, view_mode, pc, pending,
                   attempt, data, df, log, rendered, crashed>>

(***************************************************************************)
(* The script, lines 416-423: the sidebar.                                 *)
(***************************************************************************)
SidebarRefresh ==
    /\ pc = "sidebar"
    /\ pending.btn = "actualizar"
    /\ cache' = CacheClear(cache)
    /\ hist' = [hist EXCEPT !.sinceCleared = TRUE]
    /\ pending' = NoClick
    /\ pc' = "sidebar"                      \* st.rerun()
    /\ UNCHANGED <<retry_attempts, selected_state, view_mode, attempt, data,
                   df, log, rendered, crashed>>

SidebarPass ==
    /\ pc = "sidebar"
    /\ pending.btn # "actualizar"
    /\ pc' = "load"
    /\ UNCHANGED <<retry_attempts, selected_state, view_mode, cache, pending,
                   attempt, data, df, log, rendered, crashed, hist>>

(***************************************************************************)
(* line 438: df = load_census_data(), through the cache.                   *)
(***************************************************************************)
BeginAccess(isHit) ==
    [hist EXCEPT !.prev = hist.last, !.cleared = hist.sinceCleared,
                 !.expired = hist.sinceExpired, !.hit = isHit,
                 !.sinceCleared = FALSE, !.sinceExpired = FALSE]

EndAccess(h, outcome) == [h EXCEPT !.last = outcome, !.done = TRUE]

CacheHit ==
    /\ pc = "load"
    /\ CacheValid(cache)
    /\ df' = cache.value
    /\ log' = cache.msgs                    \* recorded messages are replayed
    /\ hist' = EndAccess(BeginAccess(TRUE), Outcome(cache.msgs))
    /\ pc' = "main"
    /\ UNCHANGED <<retry_attempts, selected_state, view_mode, cache, pending,
                   attempt, data, rendered, crashed>>

\* lines 115-121: the function body starts; make_census_request is called.
CacheMiss ==
    /\ pc = "load"
    /\ ~CacheValid(cache)
    /\ log' = <<"spinner: cargando datos">>
    /\ attempt' = 0
    /\ data' = NoPayload
    /\ hist' = BeginAccess(FALSE)
    /\ pc' = "request"
    /\ UNCHANGED <<retry_attempts, selected_state, view_mode, cache, pending,
                   df, rendered, crashed>>

(***************************************************************************)
(* make_census_request, lines 91-107: one action per outcome of an         *)
(* iteration of the loop.                                                  *)
(***************************************************************************)
\* line 91: range(retry_attempts)
InRange(i, n) == 0 <= i /\ i < n

\* The last-attempt test off by one.
IsLastAttemptOffByOne(i, n) == i = n

\* line 97
IsLastAttempt(i, n) == i = n - 1

Returns(p, events) ==
    /\ data' = p
    /\ log' = log \o events
    /\ pc' = "process"
    /\ UNCHANGED <<retry_attempts, selected_state, view_mode, cache, pending,
                   attempt, df, rendered, crashed, hist>>

\* lines 93-95
GetSuccess ==
    /\ pc = "request"
    /\ InRange(attempt, retry_attempts)
    /\ \E p \in Payloads : Returns(p, <<"GET">>)

\* A retry that is not announced.
GetTimeoutSilent ==
    /\ pc = "request"
    /\ InRange(attempt, retry_attempts)
    /\ IF IsLastAttempt(attempt, retry_attempts)
       THEN Returns(NoPayload, <<"GET", "error: timeout">>)
       ELSE /\ log' = log \o <<"GET">>
            /\ attempt' = attempt + 1
            /\ UNCHANGED <<retry_attempts, selected_state, view_mode, cache,
                           pending, data, df, rendered, crashed, hist, pc>>

\* lines 96-100
GetTimeout ==
    /\ pc = "request"
    /\ InRange(attempt, retry_attempts)
    /\ IF IsLastAttempt(attempt, retry_attempts)
       THEN Returns(NoPayload, <<"GET", "error: timeout">>)
       ELSE /\ log' = log \o <<"GET", "warning: reintentando">>
            /\ attempt' = attempt + 1
            /\ UNCHANGED <<retry_attempts, selected_state, view_mode, cache,
                           pending, data, df, rendered, crashed, hist, pc>>

\* A connection error handled like a timeout: reported, then retried.
GetRequestExceptionRetries ==
    /\ pc = "request"
    /\ InRange(attempt, retry_attempts)
    /\ IF IsLastAttempt(attempt, retry_attempts)
       THEN Returns(NoPayload, <<"GET", "error: conexion">>)
       ELSE /\ log' = log \o <<"GET", "error: conexion">>
            /\ attempt' = attempt + 1
            /\ UNCHANGED <<retry_attempts, selected_state, view_mode, cache,
                           pending, data, df, rendered, crashed, hist, pc>>

\* lines 101-103: connection errors and raise_for_status()
GetRequestException ==
    /\ pc = "request"
    /\ InRange(attempt, retry_attempts)
    /\ Returns(NoPayload, <<"GET", "error: conexion">>)

\* lines 104-106: response.json() on a body that is not JSON
GetUnexpected ==
    /\ pc = "request"
    /\ InRange(attempt, retry_attempts)
    /\ Returns(NoPayload, <<"GET", "error: inesperado">>)

\* line 107: the loop ran out without returning
LoopExhausted ==
    /\ pc = "request"
    /\ ~InRange(attempt, retry_attempts)
    /\ Returns(NoPayload, <<>>)

(***************************************************************************)
(* load_census_data, lines 123-155, and the store of its result.           *)
(***************************************************************************)
ProcessCrash ==
    /\ pc = "process"
    /\ LoadRaises(data)
    /\ crashed' = "TypeError"
    /\ df' = EmptyDataFrame
    /\ hist' = EndAccess(hist, "failed")
    /\ pending' = NoClick
    /\ pc' = "idle"
    /\ UNCHANGED <<retry_attempts, selected_state, view_mode, cache, attempt,
                   data, log, rendered>>

ProcessReturn ==
    /\ pc = "process"
    /\ ~LoadRaises(data)
    /\ df' = LoadTable(data)
    /\ log' = log \o LoadMessages(data)
    /\ cache' = CacheStore(df', Messages(log'))
    /\ hist' = EndAccess(hist, Outcome(log'))
    /\ pc' = "main"
    /\ UNCHANGED <<retry_attempts, selected_state, view_mode, pending, attempt,
                   data, rendered, crashed>>

(***************************************************************************)
(* The script, lines 440-453: the presenter.                               *)
(***************************************************************************)
EndRun(shown, exc) ==
    /\ rendered' = shown
    /\ crashed' = exc
    /\ pending' = NoClick
    /\ pc' = "idle"
    /\ UNCHANGED <<retry_attempts, selected_state, view_mode, cache, attempt,
                   data, df, log, hist>>

\* A button handler: the session state is written and st.rerun() is called.
Handle(state, mode) ==
    /\ selected_state' = state
    /\ view_mode' = mode
    /\ pending' = NoClick
    /\ rendered' = {}
    /\ hist' = [hist EXCEPT !.done = FALSE]
    /\ pc' = "sidebar"
    /\ UNCHANGED <<retry_attempts, cache, attempt, data, df, log, crashed>>

\* lines 440-442
MainNoData ==
    /\ pc = "main"
    /\ Empty(df)
    /\ EndRun({"warning: no hay datos"}, "none")

\* lines 171-172: list(...).index(selected_state) raises ValueError
SelectorRaises(d, state) == state # Null /\ state \notin States(d)

SelectorCrash ==
    /\ pc = "main"
    /\ ~Empty(df)
    /\ SelectorRaises(df, selected_state)
    /\ EndRun({"selector"}, "ValueError")

\* lines 176-179: if the clicked state is no longer an option the selectbox
\* is back at 'Todos los Estados' and the button is disabled.
VerDetalles ==
    /\ pc = "main"
    /\ ~Empty(df)
    /\ ~SelectorRaises(df, selected_state)
    /\ pending.btn = "ver_detalles"
    /\ pending.arg \in States(df)
    /\ Handle(pending.arg, "detail")

\* lines 182-185
VistaGeneral ==
    /\ pc = "main"
    /\ ~Empty(df)
    /\ ~SelectorRaises(df, selected_state)
    /\ pending.btn = "vista_general"
    /\ Handle(Null, "overview")

SelectorDone ==
    /\ pc = "main"
    /\ ~Empty(df)
    /\ ~SelectorRaises(df, selected_state)
    /\ ~(pending.btn = "ver_detalles" /\ pending.arg \in States(df))
    /\ pending.btn # "vista_general"

\* line 450
ShowsDetail == view_mode = "detail" /\ Truthy(selected_state)

\* lines 198-201
VolverAVistaGeneral ==
    /\ SelectorDone
    /\ ShowsDetail
    /\ pending.btn = "volver"
    /\ Handle(Null, "overview")

\* lines 205-214: new_state is what the selectbox returns in this run.
new_state(d, state_name, chosen) ==
    IF chosen \in other_states(d, state_name) THEN chosen
    ELSE IF other_states(d, state_name) = {} THEN Null
    ELSE CHOOSE s \in other_states(d, state_name) :
            \A t \in other_states(d, state_name) : s = t \/ KeyLess(s, t)

CambiarEstado ==
    /\ SelectorDone
    /\ ShowsDetail
    /\ pending.btn = "cambiar"
    /\ Handle(new_state(df, selected_state, pending.arg), view_mode)

\* lines 187-339
RenderDetail ==
    /\ SelectorDone
    /\ ShowsDetail
    /\ pending.btn \notin {"volver", "cambiar"}
    /\ EndRun({"selector", "detail"}, "none")

\* lines 341-410
RenderOverview ==
    /\ SelectorDone
    /\ ~ShowsDetail
    /\ EndRun({"selector", "overview"}, "none")

Next ==
    \/ Rerun
    \/ ClickActualizar
    \/ ClickVerDetalles
    \/ ClickVistaGeneral
    \/ ClickVolver
    \/ ClickCambiarEstado
    \/ TtlExpire
    \/ SidebarRefresh
    \/ SidebarPass
    \/ CacheHit
    \/ CacheMiss
    \/ GetSuccess
    \/ GetTimeout
    \/ GetRequestException
    \/ GetUnexpected
    \/ LoopExhausted
    \/ ProcessCrash
    \/ ProcessReturn
    \/ MainNoData
    \/ SelectorCrash
    \/ VerDetalles
    \/ VistaGeneral
    \/ VolverAVistaGeneral
    \/ CambiarEstado
    \/ RenderDetail
    \/ RenderOverview

Spec == Init /\ [][Next]_vars

TypeOK ==
    /\ retry_attempts \in RetryValues
    /\ view_mode \in {"overview", "detail"}
    /\ pc \in {"idle", "sidebar", "load", "request", "process", "main"}
    /\ attempt \in 0..MaxRetry
    /\ crashed \in {"none", "TypeError", "ValueError"}

(***************************************************************************)
(* The normalizer alone: load_census_data applied to every body of a       *)
(* bounded family, one row of which takes every combination of tokens.     *)
(***************************************************************************)
AllMissingRow(name) ==
    <<Str(name), Null, Null, Null, Null, Null, Null, Null, Null, Null, Null, Null>>

NormRows ==
    {Row(CA, pop, inc, bl, tv, vp) :
        pop \in Tokens,
        inc \in {Str(<<"7">>), Str(<<"N", "/", "A">>), Null},
        bl \in {Str(<<"0">>), Str(<<"3">>), Str(<<"1", "0">>)},
        tv \in {Str(<<"0">>), Str(<<"7">>)},
        vp \in {Str(<<"0">>), Str(<<"3">>)}}
    \cup {AllMissingRow(CA)}

NormPayloads ==
    {ListPayload(<<StdHeader, r>>) : r \in NormRows}
    \cup {ListPayload(<<StdHeader, GoodRow(TX), r>>) : r \in NormRows}
    \cup {ScalarPayload(TRUE), ListPayload(<<StdHeader>>)}

InitNorm ==
    /\ retry_attempts = 3
    /\ selected_state = Null
    /\ view_mode = "overview"
    /\ cache = NoEntry
    /\ pc = "process"
    /\ pending = NoClick
    /\ attempt = 0
    /\ data \in NormPayloads
    /\ df = EmptyDataFrame
    /\ log = <<"spinner: cargando datos", "GET">>
    /\ rendered = {}
    /\ crashed = "none"
    /\ hist = NoHist

NextNorm == ProcessCrash \/ ProcessReturn

SpecNorm == InitNorm /\ [][NextNorm]_vars

(***************************************************************************)
(* Properties                                                              *)
(***************************************************************************)
Gets == Count(log, "GET")

NonTimeoutErrors == {"error: conexion", "error: inesperado"}

\* make_census_request has returned and load_census_data has not gone on.
Returned == pc = "process"

\* Every GET of the call was answered by a timeout.
AllTimedOut ==
    Gets = Count(log, "warning: reintentando") + Count(log, "error: timeout")

RECURSIVE Retries(_)
Retries(k) ==
    IF k <= 0 THEN <<>>
    ELSE Retries(k - 1) \o <<"GET", "warning: reintentando">>

\* C1: with retry_attempts >= 1 a call never issues more than
\* retry_attempts GETs, and a call whose every GET timed out has issued
\* exactly retry_attempts GETs, ends with the one timeout error and returns
\* no payload.
C1_TimeoutAfterExactlyRetryAttempts ==
    retry_attempts >= 1 =>
        /\ Gets <= retry_attempts
        /\ (Returned /\ AllTimedOut) =>
              /\ Gets = retry_attempts
              /\ log[Len(log)] = "error: timeout"
              /\ Count(log, "error: timeout") = 1
              /\ data = NoPayload

C1_Witness ==
    /\ Returned /\ AllTimedOut
    /\ retry_attempts >= 2
    /\ Gets = retry_attempts

\* C2: a non-timeout failure ends the call at once: the error is the last
\* thing the call does, no GET follows it, no payload is returned, and when
\* it is the first attempt that failed exactly one GET was issued.
C2_NoRetryOnOtherFailures ==
    \A i \in 1..Len(log) :
        (~hist.hit /\ log[i] \in NonTimeoutErrors) =>
            /\ pc # "request"
            /\ \A j \in (i + 1)..Len(log) : log[j] # "GET"
            /\ Returned => (i = Len(log) /\ data = NoPayload)
            /\ (i = 3) => Gets = 1

C2_Witness ==
    /\ Returned
    /\ retry_attempts >= 2
    /\ Len(log) = 3
    /\ log[3] \in NonTimeoutErrors

\* C3: every call of make_census_request issues at least one GET, whatever
\* retry_attempts was configured.
C3_AtLeastOneAttempt == Returned => Gets >= 1

\* C4: an access that follows a failed load, with no refresh in between,
\* is not served from the cache.
C4_FailureNotCached ==
    (hist.done /\ hist.prev = "failed" /\ ~hist.cleared) => ~hist.hit

\* C5: the access that follows a refresh is never a cache hit: the
\* function body runs, make_census_request is called (and issues a GET when
\* retry_attempts >= 1) and the table is the normalization of what it
\* returned.  Without a refresh and before expiry, the access that follows
\* a successful load is a cache hit and issues no GET.
C5_RefreshForcesFetch ==
    hist.done =>
        /\ hist.cleared =>
              /\ ~hist.hit
              /\ log # <<>> /\ log[1] = "spinner: cargando datos"
              /\ retry_attempts >= 1 => Gets >= 1
              /\ crashed # "TypeError" => df = LoadTable(data)
        /\ (hist.prev = "ok" /\ ~hist.cleared /\ ~hist.expired) =>
              (hist.hit /\ Gets = 0)

C5_Witness ==
    /\ hist.done /\ hist.cleared /\ hist.prev = "ok"
    /\ ~hist.hit /\ Gets >= 1
    /\ ~Empty(df)

\* C6: a run whose table access failed ends with the empty table, an error
\* message and the warning, having called neither the selector nor a view,
\* and without an uncaught exception.
C6_FailureShowsNoData ==
    (pc = "idle" /\ hist.done /\ hist.last = "failed") =>
        /\ crashed = "none"
        /\ Empty(df)
        /\ rendered = {"warning: no hay datos"}
        /\ \E i \in 1..Len(log) : log[i] \in LoadErrors

\* The raw row is missing in every column but the identifier, after coercion.
AllMissing(headers, row) ==
    \A c \in 1..Len(headers) :
        headers[c] # "NAME" =>
            isna(IF c \in numeric_cols(headers) THEN to_numeric(row[c]) ELSE row[c])

Normalized == pc = "main" /\ data.kind = "list" /\ ~LoadFails(data)

\* C7: a data row is absent from the normalized table if and only if all
\* its non-identifier columns are missing after coercion.
C7_DropsOnlyAllMissingRows ==
    Normalized =>
        \A r \in 2..Len(data.list) :
            (data.list[r][1] \notin States(df)) <=> AllMissing(data.list[1], data.list[r])

\* C8: in every row of the normalized table every percentage is missing
\* when its denominator is zero or missing and is round(num / den * 100, 2)
\* otherwise.
C8_PercentagesMissingOnZeroDenominator ==
    Normalized =>
        \A r \in 1..Len(df.rows), i \in 1..Len(PercentSources) :
            LET num == Cell(df, r, PercentSources[i][2])
                den == Cell(df, r, PercentSources[i][3])
                pct == Cell(df, r, PercentSources[i][1])
            IN IF isna(den) \/ den.v = 0 THEN pct = NaN
               ELSE pct = Num(RoundHalfEven(num.v * 10000, den.v))

\* C9: the warnings and GETs of a call alternate: while the loop runs the
\* call has shown one warning after each timed-out GET; a call that
\* succeeds at attempt k+1 has shown k warnings, k+1 GETs, no error, and
\* returns that attempt's payload; a call that timed out throughout has
\* shown retry_attempts-1 warnings and then the one timeout error.
C9_AttemptsObservable ==
    /\ pc = "request" => log = <<"spinner: cargando datos">> \o Retries(attempt)
    /\ (Returned /\ log[Len(log)] = "GET") =>
          /\ attempt < retry_attempts
          /\ log = <<"spinner: cargando datos">> \o Retries(attempt) \o <<"GET">>
          /\ data \in Payloads
    /\ (Returned /\ retry_attempts >= 1 /\ AllTimedOut) =>
          log = <<"spinner: cargando datos">> \o Retries(retry_attempts - 1)
                \o <<"GET", "error: timeout">>

C9_Witness ==
    /\ Returned
    /\ log[Len(log)] = "GET"
    /\ attempt >= 1
    /\ Count(log, "warning: reintentando") = attempt
    /\ data.kind = "list"

\* C10: whenever a table is shown in detail mode, selected_state is a row
\* of it and the selector did not fail to find it.
C10_DetailHasSelectedState ==
    (pc \in {"main", "idle"} /\ ~Empty(df) /\ view_mode = "detail") =>
        /\ selected_state # Null
        /\ selected_state \in States(df)
        /\ crashed # "ValueError"

====
